---- MODULE Spec2Model ----
(***************************************************************************)
(* Model of src/stock-simulator/src/App.tsx: the App component (series     *)
(* load, range selection, derived metrics) and the StockChart component    *)
(* (projection, pointer hit-testing, hover state).                         *)
(*                                                                         *)
(* Every JavaScript number is an IEEE-754 binary64 value and every         *)
(* arithmetic operator of the source rounds its exact result to the        *)
(* nearest binary64 (ties to even).  The model keeps that: a number is a   *)
(* record [k, neg, m, e] with k one of "fin", "inf", "nan"; a finite       *)
(* non-zero value is m * 2^e with 2^52 <= m < 2^53, m held as a sequence   *)
(* of base-2^15 limbs (least significant first) because TLC's integers     *)
(* are 32 bits wide.  Zero is m = << >>, e = 0 (the sign of zero is not    *)
(* kept: no comparison of the source tells -0 from +0).  Exponent range    *)
(* limits (overflow to infinity, subnormals) are not modelled: every value *)
(* the model computes lies between 2^-60 and 2^60 in magnitude.            *)
(***************************************************************************)
EXTENDS Integers, Sequences, FiniteSets, TLC

\* ------------------------------------------------------------------------
\* Natural numbers of arbitrary size: sequences of limbs, least significant
\* first, no most-significant zero limb; << >> is 0.
\* ------------------------------------------------------------------------
LimbBase == 2^15

Pow2(k) == 2^k

Limb(a, i) == IF i <= Len(a) THEN a[i] ELSE 0

RECURSIVE BTrim(_)
BTrim(a) ==
  IF a = << >> THEN << >>
  ELSE IF a[Len(a)] # 0 THEN a
  ELSE BTrim(SubSeq(a, 1, Len(a) - 1))

RECURSIVE BFromNat(_)
BFromNat(k) == IF k = 0 THEN << >> ELSE <<k % LimbBase>> \o BFromNat(k \div LimbBase)

RECURSIVE BToNat(_)
BToNat(a) == IF a = << >> THEN 0 ELSE a[1] + LimbBase * BToNat(Tail(a))

RECURSIVE BCmpFrom(_, _, _)
BCmpFrom(a, b, i) ==
  IF i = 0 THEN 0
  ELSE IF a[i] < b[i] THEN -1
  ELSE IF a[i] > b[i] THEN 1
  ELSE BCmpFrom(a, b, i - 1)

\* -1, 0, 1 as a < b, a = b, a > b
BCmp(a, b) ==
  IF Len(a) < Len(b) THEN -1
  ELSE IF Len(a) > Len(b) THEN 1
  ELSE BCmpFrom(a, b, Len(a))

RECURSIVE BAddFrom(_, _, _, _)
BAddFrom(a, b, i, c) ==
  IF i > Len(a) /\ i > Len(b)
  THEN IF c = 0 THEN << >> ELSE <<c>>
  ELSE LET s == Limb(a, i) + Limb(b, i) + c
       IN  <<s % LimbBase>> \o BAddFrom(a, b, i + 1, s \div LimbBase)

BAdd(a, b) == BAddFrom(a, b, 1, 0)

RECURSIVE BSubFrom(_, _, _, _)
BSubFrom(a, b, i, c) ==
  IF i > Len(a) THEN << >>
  ELSE LET s == a[i] - Limb(b, i) - c
       IN  IF s < 0 THEN <<s + LimbBase>> \o BSubFrom(a, b, i + 1, 1)
           ELSE <<s>> \o BSubFrom(a, b, i + 1, 0)

\* a - b, for a >= b
BSub(a, b) == BTrim(BSubFrom(a, b, 1, 0))

RECURSIVE BMulSmallFrom(_, _, _, _)
BMulSmallFrom(a, k, i, c) ==
  IF i > Len(a)
  THEN IF c = 0 THEN << >> ELSE <<c>>
  ELSE LET s == a[i] * k + c
       IN  <<s % LimbBase>> \o BMulSmallFrom(a, k, i + 1, s \div LimbBase)

\* a * k, for 0 <= k < LimbBase
BMulSmall(a, k) == IF k = 0 THEN << >> ELSE BMulSmallFrom(a, k, 1, 0)

BShlLimbs(a, n) == IF a = << >> THEN << >> ELSE [i \in 1..n |-> 0] \o a

RECURSIVE BMulFrom(_, _, _)
BMulFrom(a, b, j) ==
  IF j > Len(b) THEN << >>
  ELSE BAdd(BShlLimbs(BMulSmall(a, b[j]), j - 1), BMulFrom(a, b, j + 1))

BMul(a, b) == BMulFrom(a, b, 1)

\* a * 2^n
BShl(a, n) == BShlLimbs(BMulSmall(a, Pow2(n % 15)), n \div 15)

RECURSIVE BDivSmallFrom(_, _, _, _)
BDivSmallFrom(a, k, i, r) ==
  IF i = 0 THEN << >>
  ELSE LET s == r * LimbBase + a[i]
       IN  BDivSmallFrom(a, k, i - 1, s % k) \o <<s \div k>>

\* floor(a / k), for 0 < k <= LimbBase
BDivSmall(a, k) == BTrim(BDivSmallFrom(a, k, Len(a), 0))

\* floor(a / 2^n)
BShr(a, n) ==
  IF n \div 15 >= Len(a) THEN << >>
  ELSE BDivSmall(SubSeq(a, n \div 15 + 1, Len(a)), Pow2(n % 15))

RECURSIVE NatBitLen(_)
NatBitLen(k) == IF k = 0 THEN 0 ELSE 1 + NatBitLen(k \div 2)

BBitLen(a) == IF a = << >> THEN 0 ELSE 15 * (Len(a) - 1) + NatBitLen(a[Len(a)])

\* a mod 2^n = 0
BLowZero(a, n) == BShl(BShr(a, n), n) = a


\* a * LimbBase + d
BPush(a, d) == IF a = << >> /\ d = 0 THEN << >> ELSE <<d>> \o a

RECURSIVE BDigitFix(_, _, _)
BDigitFix(r, b, q) ==
  IF BCmp(BMulSmall(b, q), r) > 0 THEN BDigitFix(r, b, q - 1) ELSE q

\* floor(r / b) for r < b * LimbBase and b's top limb >= LimbBase / 2:
\* the estimate from the top limbs is at most 2 too large
BDigit(r, b) ==
  IF BCmp(r, b) < 0 THEN 0
  ELSE LET n   == Len(b)
           est == (Limb(r, n + 1) * LimbBase + Limb(r, n)) \div b[n]
       IN  BDigitFix(r, b, IF est > LimbBase - 1 THEN LimbBase - 1 ELSE est)

RECURSIVE BDivFrom(_, _, _, _)
BDivFrom(a, b, i, r) ==
  IF i = 0 THEN [q |-> << >>, r |-> r]
  ELSE LET r1   == BPush(r, a[i])
           d    == BDigit(r1, b)
           rest == BDivFrom(a, b, i - 1, BSub(r1, BMulSmall(b, d)))
       IN  [q |-> rest.q \o <<d>>, r |-> rest.r]

\* [q |-> floor(a / b), exact |-> whether b divides a], for b # 0
BDivMod(a, b) ==
  LET sh  == 15 - NatBitLen(b[Len(b)])
      res == BDivFrom(BShl(a, sh), BShl(b, sh), Len(BShl(a, sh)), << >>)
  IN  [q |-> BTrim(res.q), exact |-> res.r = << >>]

\* ------------------------------------------------------------------------
\* binary64 values and the correctly rounded operations on them
\* ------------------------------------------------------------------------
FZero == [k |-> "fin", neg |-> FALSE, m |-> << >>, e |-> 0]
FNaN  == [k |-> "nan", neg |-> FALSE, m |-> << >>, e |-> 0]
FInf(neg) == [k |-> "inf", neg |-> neg, m |-> << >>, e |-> 0]

IsZero(a) == a.k = "fin" /\ a.m = << >>

\* The binary64 nearest to (n + f) * 2^e, where 0 < f < 1 if sticky and
\* f = 0 otherwise; ties go to the even mantissa.  With sticky, n has more
\* than 53 bits.
FRound(neg, n, e, sticky) ==
  IF n = << >> THEN FZero
  ELSE LET len == BBitLen(n) IN
    IF len <= 53
    THEN [k |-> "fin", neg |-> neg, m |-> BShl(n, 53 - len), e |-> e - (53 - len)]
    ELSE LET d    == len - 53
             q    == BShr(n, d)
             rem  == BSub(n, BShl(q, d))
             c    == BCmp(rem, BShl(<<1>>, d - 1))
             up   == c > 0 \/ (c = 0 /\ (sticky \/ q[1] % 2 = 1))
             q1   == IF up THEN BAdd(q, <<1>>) ELSE q
         IN  IF BBitLen(q1) = 54
             THEN [k |-> "fin", neg |-> neg, m |-> BShr(q1, 1), e |-> e + d + 1]
             ELSE [k |-> "fin", neg |-> neg, m |-> q1, e |-> e + d]

Abs(i) == IF i < 0 THEN -i ELSE i

\* The Number an integer literal or integer-valued expression denotes
FromInt(i) == FRound(i < 0, BFromNat(Abs(i)), 0, FALSE)

\* The Number the decimal text  digits * 10^-places  denotes (a numeric
\* literal of the source, a JSON number, or Number() of its text)
FromDec(digits, places) ==
  IF digits = 0 THEN FZero
  ELSE LET n   == BFromNat(Abs(digits))
           den == BFromNat(10^places)
           s   == 58 + BBitLen(den) - BBitLen(n)
           dm  == BDivMod(BShl(n, s), den)
       IN  FRound(digits < 0, dm.q, 0 - s, ~dm.exact)

FNeg(a) == IF a.k = "nan" \/ IsZero(a) THEN a ELSE [a EXCEPT !.neg = ~a.neg]

\* -1, 0, 1 as |a| < |b|, |a| = |b|, |a| > |b|, for a and b not NaN
FMagCmp(a, b) ==
  IF a.k = "inf" THEN (IF b.k = "inf" THEN 0 ELSE 1)
  ELSE IF b.k = "inf" THEN -1
  ELSE IF IsZero(a) THEN (IF IsZero(b) THEN 0 ELSE -1)
  ELSE IF IsZero(b) THEN 1
  ELSE IF a.e < b.e THEN -1
  ELSE IF a.e > b.e THEN 1
  ELSE BCmp(a.m, b.m)

\* -1, 0, 1 as a < b, a = b, a > b, for a and b not NaN
FCmp(a, b) ==
  IF a.neg # b.neg THEN (IF a.neg THEN -1 ELSE 1)
  ELSE IF a.neg THEN 0 - FMagCmp(a, b)
  ELSE FMagCmp(a, b)

\* the source's  a < b,  a > b
FLt(a, b) == a.k # "nan" /\ b.k # "nan" /\ FCmp(a, b) < 0
FGt(a, b) == FLt(b, a)

\* the source's  a + b
FAdd(a, b) ==
  IF a.k = "nan" \/ b.k = "nan" THEN FNaN
  ELSE IF a.k = "inf" THEN (IF b.k = "inf" /\ a.neg # b.neg THEN FNaN ELSE a)
  ELSE IF b.k = "inf" THEN b
  ELSE IF IsZero(a) THEN b
  ELSE IF IsZero(b) THEN a
  ELSE LET e0 == IF a.e < b.e THEN a.e ELSE b.e
           na == BShl(a.m, a.e - e0)
           nb == BShl(b.m, b.e - e0)
           c  == BCmp(na, nb)
       IN  IF a.neg = b.neg THEN FRound(a.neg, BAdd(na, nb), e0, FALSE)
           ELSE IF c = 0 THEN FZero
           ELSE IF c > 0 THEN FRound(a.neg, BSub(na, nb), e0, FALSE)
           ELSE FRound(b.neg, BSub(nb, na), e0, FALSE)

\* the source's  a - b
FSub(a, b) == FAdd(a, FNeg(b))

\* the source's  a * b
FMul(a, b) ==
  IF a.k = "nan" \/ b.k = "nan" THEN FNaN
  ELSE IF a.k = "inf" \/ b.k = "inf"
       THEN (IF IsZero(a) \/ IsZero(b) THEN FNaN ELSE FInf(a.neg # b.neg))
  ELSE IF IsZero(a) \/ IsZero(b) THEN FZero
  ELSE FRound(a.neg # b.neg, BMul(a.m, b.m), a.e + b.e, FALSE)

\* the source's  a / b
FDiv(a, b) ==
  IF a.k = "nan" \/ b.k = "nan" THEN FNaN
  ELSE IF a.k = "inf" THEN (IF b.k = "inf" THEN FNaN ELSE FInf(a.neg # b.neg))
  ELSE IF b.k = "inf" THEN FZero
  ELSE IF IsZero(b) THEN (IF IsZero(a) THEN FNaN ELSE FInf(a.neg # b.neg))
  ELSE IF IsZero(a) THEN FZero
  ELSE LET dm == BDivMod(BShl(a.m, 57), b.m)
       IN  FRound(a.neg # b.neg, dm.q, a.e - b.e - 57, ~dm.exact)

\* Math.max(a, b), Math.min(a, b)
MathMax(a, b) ==
  IF a.k = "nan" \/ b.k = "nan" THEN FNaN ELSE IF FCmp(a, b) < 0 THEN b ELSE a
MathMin(a, b) ==
  IF a.k = "nan" \/ b.k = "nan" THEN FNaN ELSE IF FCmp(a, b) > 0 THEN b ELSE a

\* floor(a), as an integer, for finite |a| < 2^30
FFloorInt(a) ==
  IF IsZero(a) THEN 0
  ELSE LET q == IF a.e >= 0 THEN BShl(a.m, a.e) ELSE BShr(a.m, 0 - a.e)
           exact == a.e >= 0 \/ BLowZero(a.m, 0 - a.e)
       IN  IF ~a.neg THEN BToNat(q)
           ELSE IF exact THEN 0 - BToNat(q) ELSE 0 - BToNat(q) - 1

\* Math.round(a), as an integer, for finite |a| < 2^30: floor(a + 1/2),
\* the sum taken exactly (halves go up)
MathRound(a) ==
  IF IsZero(a) THEN 0
  ELSE IF a.e >= 0 THEN FFloorInt(a)
  ELSE LET half == BShl(<<1>>, 0 - a.e - 1)
           twoE == 0 - a.e
       IN  IF ~a.neg
           THEN BToNat(BShr(BAdd(a.m, half), twoE))
           ELSE \* floor(1/2 - |a|) = -ceil(|a| - 1/2)
                IF BCmp(a.m, half) <= 0 THEN 0
                ELSE LET d == BSub(a.m, half)
                         q == BShr(d, twoE)
                     IN  IF BLowZero(d, twoE) THEN 0 - BToNat(q) ELSE 0 - BToNat(q) - 1

\* ------------------------------------------------------------------------
\* JavaScript values
\* ------------------------------------------------------------------------
\* null / undefined, and a present value
Null == << >>
Some(v) == <<v>>

\* a slice that keeps the leading elements: arr.slice(0, -start)
ArraySlice_leading(arr, start) ==
  SubSeq(arr, 1, IF 0 - start < Len(arr) THEN 0 - start ELSE Len(arr))

\* arr.slice(start)
ArraySlice(arr, start) ==
  LET len == Len(arr)
      k   == IF start < 0 THEN (IF len + start < 0 THEN 0 ELSE len + start)
             ELSE (IF start > len THEN len ELSE start)
  IN  SubSeq(arr, k + 1, len)

\* arr.at(i): the element, or undefined
ArrayAt(arr, i) ==
  LET k == IF i < 0 THEN Len(arr) + i ELSE i
  IN  IF k < 0 \/ k >= Len(arr) THEN Null ELSE Some(arr[k + 1])

\* arr[i]: the element, or undefined
ArrayGet(arr, i) == IF i < 0 \/ i >= Len(arr) THEN Null ELSE Some(arr[i + 1])

\* a ?? b
Coalesce(a, b) == IF a = Null THEN b ELSE a

\* the truthiness of a Number
Truthy(a) == a.k # "nan" /\ ~IsZero(a)

\* ------------------------------------------------------------------------
\* App.tsx: constants
\* ------------------------------------------------------------------------
RangeKeys == {"1D", "2D", "5D", "10D", "1M", "3M", "6M", "1Y", "MAX"}

RANGE_MAP ==
  [r \in RangeKeys |->
     CASE r = "1D"  -> Some(1)
       [] r = "2D"  -> Some(2)
       [] r = "5D"  -> Some(5)
       [] r = "10D" -> Some(10)
       [] r = "1M"  -> Some(22)
       [] r = "3M"  -> Some(66)
       [] OTHER     -> Null]        \* 'ALL'

padding == 16
width == 640
height == 280

\* ------------------------------------------------------------------------
\* State
\* ------------------------------------------------------------------------
VARIABLES
  fetchState,     \* the effect's fetch: "pending", "loaded" or "failed"
  stockData,      \* App state: Null, or Some([ticker, data])
  selectedRange,  \* App state: a RangeKey
  hoverIndex,     \* StockChart state: Null, or Some(index)
  lastEvent       \* the pointer event the chart's handlers ran last

vars == <<fetchState, stockData, selectedRange, hoverIndex, lastEvent>>

\* ------------------------------------------------------------------------
\* App: load
\* ------------------------------------------------------------------------
\* Number(text) of a decimal text <<digits, places>>
Number(text) == FromDec(text[1], text[2])

\* the parsed copy of the fetched JSON
Parse(raw) ==
  [ticker |-> raw.ticker,
   data |-> [i \in 1..Len(raw.data) |->
               [date   |-> raw.data[i].date,
                close  |-> Number(raw.data[i].close),
                high   |-> Number(raw.data[i].high),
                low    |-> Number(raw.data[i].low),
                open   |-> Number(raw.data[i].open),
                volume |-> Number(raw.data[i].volume)]]]

\* ------------------------------------------------------------------------
\* App: derived values of a render, as functions of the App state
\* ------------------------------------------------------------------------
FilteredData(sd, rangeKey) ==
  IF sd = Null THEN << >>
  ELSE LET range == RANGE_MAP[rangeKey]
       IN  IF range = Null THEN sd[1].data
           ELSE ArraySlice(sd[1].data, 0 - range[1])

filteredData == FilteredData(stockData, selectedRange)

SeriesData(sd) == IF sd = Null THEN << >> ELSE sd[1].data

latestPoint(sd, rangeKey) ==
  Coalesce(ArrayAt(FilteredData(sd, rangeKey), -1),
           IF sd = Null THEN Null ELSE ArrayAt(sd[1].data, -1))

\* the previous point taken one bar too late: at(-1)
previousPoint_last(sd) == IF sd = Null THEN Null ELSE ArrayAt(sd[1].data, -1)

previousPoint(sd) == IF sd = Null THEN Null ELSE ArrayAt(sd[1].data, -2)

currentPrice(sd, rangeKey) ==
  LET latest == latestPoint(sd, rangeKey)
  IN  IF latest = Null THEN FZero ELSE latest[1].close

previousClose(sd, rangeKey) ==
  LET previous == previousPoint(sd)
  IN  IF previous = Null THEN currentPrice(sd, rangeKey) ELSE previous[1].close

priceChange(sd, rangeKey) == FSub(currentPrice(sd, rangeKey), previousClose(sd, rangeKey))

priceChangePercent(sd, rangeKey) ==
  LET prev == previousClose(sd, rangeKey)
  IN  IF Truthy(prev)
      THEN FMul(FDiv(priceChange(sd, rangeKey), prev), FromInt(100))
      ELSE FZero

RECURSIVE SumVolume(_, _, _)
SumVolume(data, i, sum) ==
  IF i > Len(data) THEN sum ELSE SumVolume(data, i + 1, FAdd(sum, data[i].volume))

\* the mean taken without the guard for an empty window
averageVolume_unguarded(data) ==
  FDiv(SumVolume(data, 1, FZero), FromInt(Len(data)))

averageVolume(data) ==
  IF Len(data) = 0 THEN FZero
  ELSE FDiv(SumVolume(data, 1, FZero), FromInt(Len(data)))

\* The result of evaluating  obj.close  where obj may be undefined
TypeError == [k |-> "TypeError", neg |-> FALSE, m |-> << >>, e |-> 0]
CloseOf(obj) == IF obj = Null THEN TypeError ELSE obj[1].close

slope(data) ==
  IF Len(data) < 2 THEN FZero
  ELSE LET first == CloseOf(ArrayGet(data, 0))
           last  == CloseOf(ArrayGet(data, Len(data) - 1))
       IN  IF first = TypeError \/ last = TypeError THEN TypeError
           ELSE FMul(FDiv(FSub(last, first), first), FromInt(100))

\* thresholds compared inclusively
Indicator_inclusive(value) ==
  IF ~FLt(value, FromDec(2, 1)) /\ value.k # "nan" THEN "Bullish"
  ELSE IF ~FGt(value, FromDec(-2, 1)) /\ value.k # "nan" THEN "Bearish"
  ELSE "Neutral"

\* Indicator: the trend label
Indicator(value) ==
  IF FGt(value, FromDec(2, 1)) THEN "Bullish"
  ELSE IF FLt(value, FromDec(-2, 1)) THEN "Bearish"
  ELSE "Neutral"

\* ------------------------------------------------------------------------
\* StockChart
\* ------------------------------------------------------------------------
\* the early return: the placeholder is rendered and no svg, no handler
ChartPlaceholder(data) == Len(data) = 0

RECURSIVE MinLow(_, _, _)
MinLow(data, i, acc) ==
  IF i > Len(data) THEN acc ELSE MinLow(data, i + 1, MathMin(acc, data[i].low))

RECURSIVE MaxHigh(_, _, _)
MaxHigh(data, i, acc) ==
  IF i > Len(data) THEN acc ELSE MaxHigh(data, i + 1, MathMax(acc, data[i].high))

\* the index divided by the number of points, not of intervals
ChartX_byCount(index, n) ==
  FAdd(FromInt(padding),
       FMul(FDiv(FromInt(index), FromInt(IF n > 1 THEN n ELSE 1)),
            FromInt(width - padding * 2)))

\* the inset left out of x
ChartX_noInset(index, n) ==
  FMul(FDiv(FromInt(index), FromInt(IF n - 1 > 1 THEN n - 1 ELSE 1)),
       FromInt(width - padding * 2))

\* x of the point at index (0-based) among n
ChartX(index, n) ==
  FAdd(FromInt(padding),
       FMul(FDiv(FromInt(index), FromInt(IF n - 1 > 1 THEN n - 1 ELSE 1)),
            FromInt(width - padding * 2)))

ChartY(point, minPrice, priceRange) ==
  FSub(FromInt(height - padding),
       FMul(FDiv(FSub(point.close, minPrice), priceRange),
            FromInt(height - padding * 2)))

\* chartPoints of a render with a non-empty data; << >> with the placeholder
chartPoints(data) ==
  IF ChartPlaceholder(data) THEN << >>
  ELSE LET minPrice   == MinLow(data, 1, FInf(FALSE))
           maxPrice   == MaxHigh(data, 1, FInf(TRUE))
           diff       == FSub(maxPrice, minPrice)
           priceRange == IF Truthy(diff) THEN diff ELSE FromInt(1)
       IN  [i \in 1..Len(data) |->
              [x |-> ChartX(i - 1, Len(data)),
               y |-> ChartY(data[i], minPrice, priceRange),
               point |-> data[i]]]

\* the ratio used without the clamp
HitIndex_unclamped(offsetX, boundsWidth, n) ==
  LET scaleX   == FDiv(FromInt(width), boundsWidth)
      pointerX == FMul(offsetX, scaleX)
      ratio    == FDiv(FSub(pointerX, FromInt(padding)), FromInt(width - padding * 2))
  IN  MathRound(FMul(ratio, FromInt(n - 1)))

\* the index handleMouseMove computes; offsetX is event.clientX - bounds.left
HitIndex(offsetX, boundsWidth, n) ==
  LET scaleX       == FDiv(FromInt(width), boundsWidth)
      pointerX     == FMul(offsetX, scaleX)
      ratio        == FDiv(FSub(pointerX, FromInt(padding)), FromInt(width - padding * 2))
      clampedRatio == MathMin(FromInt(1), MathMax(FromInt(0), ratio))
  IN  MathRound(FMul(clampedRatio, FromInt(n - 1)))

\* hoveredPoint of a render: chartPoints[hoverIndex], or nothing
hoveredPoint(h, data) ==
  IF h = Null THEN Null ELSE ArrayGet(chartPoints(data), h[1])

\* StockChart's hook state after a render with data: a render that returns
\* the placeholder runs no hook, and the state a later render finds is new
HookStateAfterRender(h, data) == IF ChartPlaceholder(data) THEN Null ELSE h

NoEvent == [kind |-> "none", offsetX |-> FZero, boundsWidth |-> FZero, n |-> 0]
LeaveEvent == [kind |-> "leave", offsetX |-> FZero, boundsWidth |-> FZero, n |-> 0]
MoveEvent(offsetX, boundsWidth, n) ==
  [kind |-> "move", offsetX |-> offsetX, boundsWidth |-> boundsWidth, n |-> n]

\* ------------------------------------------------------------------------
\* Operations
\* ------------------------------------------------------------------------
\* fetch(...).then(...): setStockData(parsed), and the render that follows
FetchResolve(raw) ==
  /\ fetchState = "pending"
  /\ fetchState' = "loaded"
  /\ stockData' = Some(Parse(raw))
  /\ hoverIndex' = HookStateAfterRender(hoverIndex, FilteredData(stockData', selectedRange))
  /\ UNCHANGED <<selectedRange, lastEvent>>

\* fetch(...).catch(...): the error is logged, the state is left alone
FetchReject ==
  /\ fetchState = "pending"
  /\ fetchState' = "failed"
  /\ UNCHANGED <<stockData, selectedRange, hoverIndex, lastEvent>>

\* a range button's onClick: setSelectedRange(range), and the render that follows
SelectRange(range) ==
  /\ selectedRange' = range
  /\ hoverIndex' = HookStateAfterRender(hoverIndex, FilteredData(stockData, range))
  /\ UNCHANGED <<fetchState, stockData, lastEvent>>

\* onMouseMove of the svg, which is rendered only without the placeholder;
\* chartPoints has one point for each bar of data
handleMouseMove(offsetX, boundsWidth) ==
  /\ ~ChartPlaceholder(filteredData)
  /\ hoverIndex' = IF Len(filteredData) = 0 THEN hoverIndex
                   ELSE Some(HitIndex(offsetX, boundsWidth, Len(filteredData)))
  /\ lastEvent' = MoveEvent(offsetX, boundsWidth, Len(filteredData))
  /\ UNCHANGED <<fetchState, stockData, selectedRange>>

\* a leave handler that keeps the hover
handleMouseLeave_keep ==
  /\ ~ChartPlaceholder(filteredData)
  /\ hoverIndex' = hoverIndex
  /\ lastEvent' = LeaveEvent
  /\ UNCHANGED <<fetchState, stockData, selectedRange>>

\* onMouseLeave of the svg
handleMouseLeave ==
  /\ ~ChartPlaceholder(filteredData)
  /\ hoverIndex' = Null
  /\ lastEvent' = LeaveEvent
  /\ UNCHANGED <<fetchState, stockData, selectedRange>>

\* ------------------------------------------------------------------------
\* Inputs
\* ------------------------------------------------------------------------
MaxBars == 6

\* decimal texts of prices, as <<digits, places>>
SampleCloses == << <<100, 0>>, <<1002, 1>>, <<998, 1>>, <<12001, 2>>, <<7999, 2>>, <<1000, 0>> >>

RawBar(i, close, volume) ==
  [date   |-> i * i,
   open   |-> close,
   high   |-> <<close[1] + 1, close[2]>>,
   low    |-> <<(IF close[1] > 0 THEN close[1] - 1 ELSE 0), close[2]>>,
   close  |-> close,
   volume |-> <<volume, 0>>]

\* a series of len bars, bar i on day i * i
RawSeries(len) ==
  [ticker |-> "ONE",
   data |-> [i \in 1..len |->
               RawBar(i, SampleCloses[((i - 1) % Len(SampleCloses)) + 1], 100 * i)]]

MaxSelectLen == 67
MaxMetricBars == 2
MaxChartBars == 12

\* pointer offsets left of the inset, inside it and right of it, and
\* rendered widths below, at and above the logical width
ChartOffsets ==
  {FromInt(-25), FromInt(0), FromInt(8), FromDec(1707, 1), FromInt(320),
   FromDec(6235, 1), FromInt(640), FromInt(1000)}
ChartWidths == {FromInt(640), FromInt(320), FromDec(99975, 2)}

\* decimal texts of closes around the sentiment thresholds, and a zero close
PriceTexts == {<<0, 0>>, <<100, 0>>, <<1002, 1>>, <<998, 1>>, <<1000, 0>>, <<1002, 0>>, <<998, 0>>}

\* a series with the given closes, bar i on day i * i
RawCloseSeries(closes) ==
  [ticker |-> "ONE",
   data |-> [i \in 1..Len(closes) |-> RawBar(i, closes[i], 100 * i)]]

\* pointer offsets (event.clientX - bounds.left) and rendered widths
PointerOffsets == {FromInt(-40), FromInt(16), FromDec(3205, 1), FromInt(700)}
RenderedWidths == {FromInt(640), FromInt(320)}

\* ------------------------------------------------------------------------
\* The application
\* ------------------------------------------------------------------------
Init ==
  /\ fetchState = "pending"
  /\ stockData = Null
  /\ selectedRange = "6M"
  /\ hoverIndex = Null
  /\ lastEvent = NoEvent

Next ==
  \/ \E len \in 0..MaxBars : FetchResolve(RawSeries(len))
  \/ FetchReject
  \/ \E range \in RangeKeys : SelectRange(range)
  \/ \E offsetX \in PointerOffsets, boundsWidth \in RenderedWidths :
       handleMouseMove(offsetX, boundsWidth)
  \/ handleMouseLeave

Spec == Init /\ [][Next]_vars

\* ------------------------------------------------------------------------
\* Claims checked on the application (Spec)
\* ------------------------------------------------------------------------
Loaded == stockData # Null
WindowLen == Len(filteredData)

\* C2 (as claimed): whenever a step changes the Window, the Hover State is
\* unset after it, whatever it was before.
C2_HoverResetOnWindowChange ==
  [][filteredData' # filteredData => hoverIndex' = Null]_vars

\* C4: the hover starts idle; a pointer-leave always ends idle; after any
\* sequence of pointer events the hover is the one the last event alone
\* determines (none yet: idle; leave: idle; move: the index hit by that move).
C4_LastPointerEventWins ==
  /\ lastEvent.kind = "none" => hoverIndex = Null
  /\ lastEvent.kind = "leave" => hoverIndex = Null
  /\ lastEvent.kind = "move" =>
       hoverIndex = Some(HitIndex(lastEvent.offsetX, lastEvent.boundsWidth, lastEvent.n))

\* a pointer-leave has been handled on a chart of several bars
C4_Witness ==
  /\ lastEvent.kind = "leave"
  /\ hoverIndex = Null
  /\ WindowLen >= 2

\* C8: with an empty or not yet loaded Series, under every Range Selection
\* the Window is empty, change, changePercent, average volume and slope are
\* 0, the label is Neutral, the projection has no points and the chart is the
\* placeholder, no hover is set and no pointer handler can run, and no
\* property of an absent bar is read.
C8_EmptySeriesDefaults ==
  SeriesData(stockData) = << >> =>
    /\ \A r \in RangeKeys :
         LET w == FilteredData(stockData, r) IN
         /\ w = << >>
         /\ latestPoint(stockData, r) = Null
         /\ priceChange(stockData, r) = FZero
         /\ priceChangePercent(stockData, r) = FZero
         /\ averageVolume(w) = FZero
         /\ slope(w) = FZero
         /\ Indicator(slope(w)) = "Neutral"
         /\ chartPoints(w) = << >>
         /\ ChartPlaceholder(w)
    /\ hoverIndex = Null
    /\ hoveredPoint(hoverIndex, filteredData) = Null
    /\ ~ENABLED handleMouseLeave
    /\ \A o \in PointerOffsets, w \in RenderedWidths : ~ENABLED handleMouseMove(o, w)

\* an empty Series has been loaded and a finite range is selected
C8_Witness ==
  /\ fetchState = "loaded"
  /\ Loaded
  /\ SeriesData(stockData) = << >>
  /\ selectedRange = "5D"

\* C9 (as claimed): the Hover State is unset or an index into the Window
\* now rendered.
C9_HoverIndexInWindow ==
  hoverIndex = Null \/ (hoverIndex[1] >= 0 /\ hoverIndex[1] <= WindowLen - 1)
\* ------------------------------------------------------------------------
\* The application loading a series of any length up to MaxSelectLen, with
\* no pointer over the chart: the window selector
\* ------------------------------------------------------------------------
NextSelect ==
  \/ \E len \in 0..MaxSelectLen : FetchResolve(RawSeries(len))
  \/ \E range \in RangeKeys : SelectRange(range)

SpecSelect == Init /\ [][NextSelect]_vars

\* the bar counts as the claim lists them; 0 stands for the entire series
ClaimedBars(r) ==
  CASE r = "1D" -> 1 [] r = "2D" -> 2 [] r = "5D" -> 5 [] r = "10D" -> 10
    [] r = "1M" -> 22 [] r = "3M" -> 66 [] r \in {"6M", "1Y", "MAX"} -> 0

\* s is the suffix of t of length n
IsSuffixOfLen(s, t, n) ==
  /\ Len(s) = n
  /\ n <= Len(t)
  /\ \A i \in 1..n : s[i] = t[Len(t) - n + i]

\* C1: for a Series of length L and every range key the Window is the suffix
\* of the Series of length min(L, n) for a key of n bars and of length L
\* for 6M, 1Y and MAX; it is empty for every key when L = 0.
C1_WindowIsSuffix ==
  \A r \in RangeKeys :
    LET data == SeriesData(stockData)
        L    == Len(data)
        n    == ClaimedBars(r)
        w    == FilteredData(stockData, r)
    IN  /\ IsSuffixOfLen(w, data, IF n = 0 \/ L < n THEN L ELSE n)
        /\ L = 0 => w = << >>

\* a Series longer than the longest finite range, cut to 66 bars by 3M
C1_Witness ==
  /\ Len(SeriesData(stockData)) = 67
  /\ selectedRange = "3M"
  /\ WindowLen = 66
  /\ filteredData[1].date = 4
\* ------------------------------------------------------------------------
\* The application loading any close sequence over PriceTexts of up to
\* MaxMetricBars bars, with no pointer over the chart: the derived metrics
\* ------------------------------------------------------------------------
NextMetrics ==
  \/ \E n \in 0..MaxMetricBars : \E closes \in [1..n -> PriceTexts] :
       FetchResolve(RawCloseSeries(closes))
  \/ \E range \in RangeKeys : SelectRange(range)

SpecMetrics == Init /\ [][NextMetrics]_vars

\* C6: for a loaded non-empty Series and every Range Selection, latest is
\* the last bar of the Window, previous the second-to-last bar of the full
\* Series, change = latest.close - previous.close (0 without a previous
\* bar), changePercent = change / previous.close * 100 when previous.close
\* is non-zero and 0 otherwise; both are the same under every range (each
\* equals its value under MAX).
C6_ChangeAgainstFullSeries ==
  LET data == SeriesData(stockData)
      L    == Len(data)
  IN  L >= 1 =>
        \A r \in RangeKeys :
          LET w      == FilteredData(stockData, r)
              change == priceChange(stockData, r)
              pct    == priceChangePercent(stockData, r)
          IN  /\ w # << >>
              /\ latestPoint(stockData, r) = Some(w[Len(w)])
              /\ previousPoint(stockData) = (IF L >= 2 THEN Some(data[L - 1]) ELSE Null)
              /\ change = (IF L >= 2 THEN FSub(w[Len(w)].close, data[L - 1].close) ELSE FZero)
              /\ pct = (IF L >= 2 /\ ~IsZero(data[L - 1].close)
                        THEN FMul(FDiv(change, data[L - 1].close), FromInt(100))
                        ELSE FZero)
              /\ change = priceChange(stockData, "MAX")
              /\ pct = priceChangePercent(stockData, "MAX")

\* the Window is the last bar alone, the previous bar lies outside it, and
\* the change is not 0
C6_Witness ==
  /\ Len(SeriesData(stockData)) = 2
  /\ selectedRange = "1D"
  /\ WindowLen = 1
  /\ ~IsZero(priceChange(stockData, selectedRange))
  /\ ~IsZero(priceChangePercent(stockData, selectedRange))

\* the slope and the label as the claim states them, for the Window rendered
SlopeAndLabelRule ==
  LET w == filteredData
      s == slope(w)
      t == Indicator(s)
  IN  /\ Len(w) < 2 => s = FZero
      /\ (Len(w) >= 2 /\ ~IsZero(w[1].close)) =>
           s = FMul(FDiv(FSub(w[Len(w)].close, w[1].close), w[1].close), FromInt(100))
      /\ (t = "Bullish") = FGt(s, FromDec(2, 1))
      /\ (t = "Bearish") = FLt(s, FromDec(-2, 1))
      /\ (t = "Neutral") = (~FGt(s, FromDec(2, 1)) /\ ~FLt(s, FromDec(-2, 1)))

\* the Window runs from a close of text a to a close of text b
WindowFromTo(a, b) ==
  /\ WindowLen >= 2
  /\ filteredData[1].close = Number(a)
  /\ filteredData[WindowLen].close = Number(b)

NextChart ==
  \/ \E len \in 1..MaxChartBars : FetchResolve(RawSeries(len))
  \/ \E offsetX \in ChartOffsets, boundsWidth \in ChartWidths :
       handleMouseMove(offsetX, boundsWidth)
  \/ \E i \in 0..(WindowLen - 1) :
       \* the pointer exactly on plotted point i, the svg at its logical width
       handleMouseMove(ChartX(i, WindowLen), FromInt(width))
  \/ handleMouseLeave

SpecChart == Init /\ [][NextChart]_vars

\* clamp(r, 0, 1)
Clamp01(r) ==
  IF FLt(r, FromInt(0)) THEN FromInt(0) ELSE IF FGt(r, FromInt(1)) THEN FromInt(1) ELSE r

\* k = round(t): k - 1/2 <= t < k + 1/2
IsRoundOf(k, t) ==
  /\ ~FLt(FMul(t, FromInt(2)), FromInt(2 * k - 1))
  /\ FLt(FMul(t, FromInt(2)), FromInt(2 * k + 1))

\* C3: on a Window of n >= 1 bars a pointer-move at any offset and any
\* positive rendered width sets the hover to
\* round(clamp((scaledX - P) / (W - 2P), 0, 1) * (n - 1)), within [0, n-1].
C3_HitIndexFormulaAndRange ==
  lastEvent.kind = "move" =>
    LET n       == lastEvent.n
        scaledX == FMul(lastEvent.offsetX, FDiv(FromInt(width), lastEvent.boundsWidth))
        r       == FDiv(FSub(scaledX, FromInt(padding)), FromInt(width - 2 * padding))
        t       == FMul(Clamp01(r), FromInt(n - 1))
    IN  /\ n >= 1
        /\ n = WindowLen
        /\ hoverIndex # Null
        /\ IsRoundOf(hoverIndex[1], t)
        /\ hoverIndex[1] >= 0
        /\ hoverIndex[1] <= n - 1

\* a move right of the inset on a scaled chart hits the last bar
C3_Witness ==
  /\ lastEvent.kind = "move"
  /\ lastEvent.offsetX = FromInt(1000)
  /\ lastEvent.boundsWidth = FromInt(320)
  /\ WindowLen = 5
  /\ hoverIndex = Some(4)

\* C5: hit-testing a pointer exactly at the projected x of index i, with the
\* rendered width equal to the logical width, returns i.
C5_HitTestRoundTrip ==
  \A i \in 0..(WindowLen - 1) :
    ( /\ lastEvent.kind = "move"
      /\ lastEvent.boundsWidth = FromInt(width)
      /\ lastEvent.offsetX = chartPoints(filteredData)[i + 1].x )
    => hoverIndex = Some(i)

\* the pointer was put on the third of seven points, whose x is no integer
C5_Witness ==
  /\ WindowLen = 7
  /\ lastEvent.kind = "move"
  /\ lastEvent.boundsWidth = FromInt(width)
  /\ lastEvent.offsetX = chartPoints(filteredData)[3].x
  /\ FFloorInt(lastEvent.offsetX) = 218
  /\ lastEvent.offsetX # FromInt(218)
  /\ hoverIndex = Some(2)

\* |a - b| <= 10^-9
Near(a, b) ==
  /\ ~FGt(FSub(a, b), FromDec(1, 9))
  /\ ~FGt(FSub(b, a), FromDec(1, 9))

\* the x of every point of the Window rendered follows the formula, does not
\* decrease, and the gaps between consecutive points are equal (to within
\* the rounding of the arithmetic: 10^-9 of a pixel)
ProjectionRule ==
  LET pts == chartPoints(filteredData)
      n   == Len(pts)
      den == FromInt(IF n - 1 > 1 THEN n - 1 ELSE 1)
  IN  /\ n = WindowLen
      /\ \A i \in 0..(n - 1) :
           /\ pts[i + 1].point = filteredData[i + 1]
           /\ pts[i + 1].x =
                FAdd(FromInt(padding),
                     FMul(FDiv(FromInt(i), den), FromInt(width - 2 * padding)))
      /\ \A i \in 1..(n - 1) :
           /\ FLt(pts[i].x, pts[i + 1].x)
           /\ Near(FSub(pts[i + 1].x, pts[i].x), FSub(pts[2].x, pts[1].x))
           /\ Near(FSub(pts[i + 1].x, pts[i].x), FDiv(FromInt(width - 2 * padding), den))

\* C10 (as claimed): for every non-empty Window of n bars the bar at index 0
\* is at x = P and the bar at index n-1 at x = W - P, with the formula,
\* order and spacing of ProjectionRule.
C10_EndpointsAsClaimed ==
  WindowLen >= 1 =>
    LET pts == chartPoints(filteredData)
    IN  /\ ProjectionRule
        /\ pts[1].x = FromInt(padding)
        /\ pts[WindowLen].x = FromInt(width - padding)

\* C10 (amended): the bar at index 0 is at x = P; for n >= 2 the bar at
\* index n-1 is at x = W - P, and a single bar is at x = P; with the
\* formula, order and spacing of ProjectionRule.
C10_Projection ==
  WindowLen >= 1 =>
    LET pts == chartPoints(filteredData)
    IN  /\ ProjectionRule
        /\ pts[1].x = FromInt(padding)
        /\ WindowLen >= 2 => pts[WindowLen].x = FromInt(width - padding)
        /\ WindowLen = 1 => pts[WindowLen].x = FromInt(padding)

\* a Window of four bars, on days 1, 4, 9 and 16, whose inner points fall on
\* no integer x
C10_Witness ==
  /\ WindowLen = 4
  /\ filteredData[4].date - filteredData[3].date # filteredData[2].date - filteredData[1].date
  /\ FFloorInt(chartPoints(filteredData)[2].x) = 218
  /\ FFloorInt(chartPoints(filteredData)[3].x) = 421
  /\ chartPoints(filteredData)[4].x = FromInt(624)
====
